---- MODULE Spec2Model ----
(***************************************************************************)
(* Tic-tac-toe engine: Board (board.js), Rules (rules.js), AI opponent    *)
(* (board.js, second half) and the GameEngine orchestrator (gameEngine.js) *)
(* together with the Svelte stores it publishes to.                        *)
(***************************************************************************)
EXTENDS Integers, Sequences, FiniteSets, TLC

VARIABLES
    cells,               \* Board.cells: 9 slots, each null, "X" or "O"
    currentPlayer,       \* Board.currentPlayer
    status,              \* Board.status
    sBoard,              \* store `board`
    sCurrentPlayer,      \* store `currentPlayer`
    sGameStatus,         \* store `gameStatus`
    difficulty,          \* store `difficulty`
    gameStarted,         \* store `gameStarted`
    aiThinking,          \* store `aiThinking`
    winningCombination,  \* store `winningCombination`
    pending,             \* handleAIMove invocations suspended at their delay
    lastOp,              \* the step taken last (in the specifications of single
                         \* functions: the call made, with its arguments)
    ret                  \* what the last call returned

boardVars == <<cells, currentPlayer, status>>

storeVars == <<sBoard, sCurrentPlayer, sGameStatus, difficulty, gameStarted,
               aiThinking, winningCombination>>

vars == <<cells, currentPlayer, status, sBoard, sCurrentPlayer, sGameStatus,
          difficulty, gameStarted, aiThinking, winningCombination, pending,
          lastOp, ret>>

\* ------------------------------------------------------------------ bounds

\* Largest number of handleAIMove invocations that may be suspended at the
\* delay at the same time (the code has no such limit).
MaxPending == 2


\* ------------------------------------------------------------------ values

\* JavaScript null in a cell: the cell is empty.
null == "null"

\* JavaScript null returned for a move: no move (moves are 0..8).
nullMove == -1

\* JavaScript null returned for a winning combination: none.
nullCombo == << >>

\* The value `undefined` of a call that returns nothing (or of no call yet).
undefined == "undefined"

Indices == 0..8

Markers == {"X", "O"}

\* Difficulty tokens handed to the engine; "UNKNOWN" is neither EASY nor HARD.
Difficulties == {"EASY", "HARD", "UNKNOWN"}

\* Infinity of the search: every score lies in -10..10.
Infinity == 1000

EmptyBoard == [i \in Indices |-> null]

Max(a, b) == IF a >= b THEN a ELSE b

Min(a, b) == IF a <= b THEN a ELSE b

\* ------------------------------------------------------------------ rules.js

WIN_COMBINATIONS ==
    << <<0, 1, 2>>, <<3, 4, 5>>, <<6, 7, 8>>,
       <<0, 3, 6>>, <<1, 4, 7>>, <<2, 5, 8>>,
       <<0, 4, 8>>, <<2, 4, 6>> >>

\* The test of checkWin's loop body: all three cells of combo hold player.
holdsAll(board, player, combo) ==
    /\ board[combo[1]] = player
    /\ board[combo[2]] = player
    /\ board[combo[3]] = player

\* checkWin scanning the winning combinations from the last to the first.
checkWinLastFirst(board, player) ==
    IF holdsAll(board, player, WIN_COMBINATIONS[8]) THEN WIN_COMBINATIONS[8]
    ELSE IF holdsAll(board, player, WIN_COMBINATIONS[7]) THEN WIN_COMBINATIONS[7]
    ELSE IF holdsAll(board, player, WIN_COMBINATIONS[6]) THEN WIN_COMBINATIONS[6]
    ELSE IF holdsAll(board, player, WIN_COMBINATIONS[5]) THEN WIN_COMBINATIONS[5]
    ELSE IF holdsAll(board, player, WIN_COMBINATIONS[4]) THEN WIN_COMBINATIONS[4]
    ELSE IF holdsAll(board, player, WIN_COMBINATIONS[3]) THEN WIN_COMBINATIONS[3]
    ELSE IF holdsAll(board, player, WIN_COMBINATIONS[2]) THEN WIN_COMBINATIONS[2]
    ELSE IF holdsAll(board, player, WIN_COMBINATIONS[1]) THEN WIN_COMBINATIONS[1]
    ELSE nullCombo

\* checkWin scans the combinations in order and returns the first one whose
\* three cells all hold player, or null (the loop over the 8 entries of
\* WIN_COMBINATIONS, written out).
checkWin(board, player) ==
    IF holdsAll(board, player, WIN_COMBINATIONS[1]) THEN WIN_COMBINATIONS[1]
    ELSE IF holdsAll(board, player, WIN_COMBINATIONS[2]) THEN WIN_COMBINATIONS[2]
    ELSE IF holdsAll(board, player, WIN_COMBINATIONS[3]) THEN WIN_COMBINATIONS[3]
    ELSE IF holdsAll(board, player, WIN_COMBINATIONS[4]) THEN WIN_COMBINATIONS[4]
    ELSE IF holdsAll(board, player, WIN_COMBINATIONS[5]) THEN WIN_COMBINATIONS[5]
    ELSE IF holdsAll(board, player, WIN_COMBINATIONS[6]) THEN WIN_COMBINATIONS[6]
    ELSE IF holdsAll(board, player, WIN_COMBINATIONS[7]) THEN WIN_COMBINATIONS[7]
    ELSE IF holdsAll(board, player, WIN_COMBINATIONS[8]) THEN WIN_COMBINATIONS[8]
    ELSE nullCombo

\* The body of getWinningMove's loop for one combination: the empty cell of
\* a combination holding two markers of player and one empty cell, else
\* nothing.
winningCell(board, player, combo) ==
    LET playerCount == Cardinality({j \in 1..3 : board[combo[j]] = player})
        emptyCount == Cardinality({j \in 1..3 : board[combo[j]] = null})
    IN  IF playerCount = 2 /\ emptyCount = 1
        THEN IF board[combo[1]] = null THEN combo[1]
             ELSE IF board[combo[2]] = null THEN combo[2]
             ELSE IF board[combo[3]] = null THEN combo[3]
             ELSE nullMove
        ELSE nullMove

\* getWinningMove's loop from the k-th combination on.
RECURSIVE getWinningMoveFrom(_, _, _)
getWinningMoveFrom(board, player, k) ==
    IF k > Len(WIN_COMBINATIONS) THEN nullMove
    ELSE LET cell == winningCell(board, player, WIN_COMBINATIONS[k])
         IN  IF cell # nullMove THEN cell
             ELSE getWinningMoveFrom(board, player, k + 1)

\* getWinningMove skipping the first combination.
getWinningMoveSkipsFirst(board, player) == getWinningMoveFrom(board, player, 2)

getWinningMove(board, player) == getWinningMoveFrom(board, player, 1)

checkDraw(board) ==
    IF checkWin(board, "X") # nullCombo \/ checkWin(board, "O") # nullCombo
    THEN FALSE
    ELSE \A i \in Indices : board[i] # null

\* getGameResult testing O's line before X's.
getGameResultAIFirst(board) ==
    IF checkWin(board, "O") # nullCombo THEN "AI_WON"
    ELSE IF checkWin(board, "X") # nullCombo THEN "PLAYER_WON"
    ELSE IF checkDraw(board) THEN "DRAW"
    ELSE "ONGOING"

getGameResult(board) ==
    IF checkWin(board, "X") # nullCombo THEN "PLAYER_WON"
    ELSE IF checkWin(board, "O") # nullCombo THEN "AI_WON"
    ELSE IF checkDraw(board) THEN "DRAW"
    ELSE "ONGOING"

\* ------------------------------------------------------------------ ai.js

\* Empty cell indices in ascending order.
RECURSIVE availableFrom(_, _)
availableFrom(board, i) ==
    IF i > 8 THEN << >>
    ELSE IF board[i] = null THEN <<i>> \o availableFrom(board, i + 1)
    ELSE availableFrom(board, i + 1)

\* getAvailableMoves without the test of the cell.
getAvailableMovesAll(board) == <<0, 1, 2, 3, 4, 5, 6, 7, 8>>

getAvailableMoves(board) == availableFrom(board, 0)

\* getRandomMove that never selects the last available move.
getRandomMoveSkipsLast(board) ==
    LET available == getAvailableMoves(board)
    IN  IF Len(available) = 0 THEN {nullMove}
        ELSE {available[k] : k \in 1..Max(1, Len(available) - 1)}

\* getRandomMove: the set of values Math.random() can select.
getRandomMove(board) ==
    LET available == getAvailableMoves(board)
    IN  IF Len(available) = 0 THEN {nullMove}
        ELSE {available[k] : k \in 1..Len(available)}

RECURSIVE minimax(_, _, _, _, _)
RECURSIVE maximizeFrom(_, _, _, _, _, _, _)
RECURSIVE minimizeFrom(_, _, _, _, _, _, _)

RECURSIVE maximizeFromBreakBeforeUpdate(_, _, _, _, _, _, _)

\* The maximizing loop with the pruning break taken before maxScore is updated.
maximizeFromBreakBeforeUpdate(board, depth, available, k, maxScore, alpha, beta) ==
    IF k > Len(available) THEN maxScore
    ELSE LET move == available[k]
             score == minimax([board EXCEPT ![move] = "O"], depth + 1, FALSE, alpha, beta)
             newMax == Max(maxScore, score)
             newAlpha == Max(alpha, score)
         IN  IF beta <= newAlpha THEN maxScore
             ELSE maximizeFromBreakBeforeUpdate(board, depth, available, k + 1,
                                                newMax, newAlpha, beta)

\* The maximizing loop of minimax from the k-th available move on.
maximizeFrom(board, depth, available, k, maxScore, alpha, beta) ==
    IF k > Len(available) THEN maxScore
    ELSE LET move == available[k]
             score == minimax([board EXCEPT ![move] = "O"], depth + 1, FALSE, alpha, beta)
             newMax == Max(maxScore, score)
             newAlpha == Max(alpha, score)
         IN  IF beta <= newAlpha THEN newMax
             ELSE maximizeFrom(board, depth, available, k + 1, newMax, newAlpha, beta)

\* The minimizing loop of minimax from the k-th available move on.
minimizeFrom(board, depth, available, k, minScore, alpha, beta) ==
    IF k > Len(available) THEN minScore
    ELSE LET move == available[k]
             score == minimax([board EXCEPT ![move] = "X"], depth + 1, TRUE, alpha, beta)
             newMin == Min(minScore, score)
             newBeta == Min(beta, score)
         IN  IF newBeta <= alpha THEN newMin
             ELSE minimizeFrom(board, depth, available, k + 1, newMin, alpha, newBeta)

\* minimax whose terminal scores ignore the depth.
minimaxNoDepth(board, depth, isMaximizing, alpha, beta) ==
    IF checkWin(board, "O") # nullCombo THEN 10
    ELSE IF checkWin(board, "X") # nullCombo THEN -10
    ELSE IF checkDraw(board) THEN 0
    ELSE LET available == getAvailableMoves(board)
         IN  IF isMaximizing
             THEN maximizeFrom(board, depth, available, 1, -Infinity, alpha, beta)
             ELSE minimizeFrom(board, depth, available, 1, Infinity, alpha, beta)

\* minimax with the two terminal scores exchanged.
minimaxScoresExchanged(board, depth, isMaximizing, alpha, beta) ==
    IF checkWin(board, "O") # nullCombo THEN depth - 10
    ELSE IF checkWin(board, "X") # nullCombo THEN 10 - depth
    ELSE IF checkDraw(board) THEN 0
    ELSE LET available == getAvailableMoves(board)
         IN  IF isMaximizing
             THEN maximizeFrom(board, depth, available, 1, -Infinity, alpha, beta)
             ELSE minimizeFrom(board, depth, available, 1, Infinity, alpha, beta)

minimax(board, depth, isMaximizing, alpha, beta) ==
    IF checkWin(board, "O") # nullCombo THEN 10 - depth
    ELSE IF checkWin(board, "X") # nullCombo THEN depth - 10
    ELSE IF checkDraw(board) THEN 0
    ELSE LET available == getAvailableMoves(board)
         IN  IF isMaximizing
             THEN maximizeFrom(board, depth, available, 1, -Infinity, alpha, beta)
             ELSE minimizeFrom(board, depth, available, 1, Infinity, alpha, beta)

\* The top-level loop in which a later slot with an equal score replaces the
\* current best.
RECURSIVE bestMoveFromTiesKeepLast(_, _, _, _, _)
bestMoveFromTiesKeepLast(board, available, k, bestMove, bestScore) ==
    IF k > Len(available) THEN bestMove
    ELSE LET move == available[k]
             score == minimax([board EXCEPT ![move] = "O"], 0, FALSE, -Infinity, Infinity)
         IN  IF score >= bestScore
             THEN bestMoveFromTiesKeepLast(board, available, k + 1, move, score)
             ELSE bestMoveFromTiesKeepLast(board, available, k + 1, bestMove, bestScore)

\* The top-level loop scoring each position as if O were to move again.
RECURSIVE bestMoveFromWrongRole(_, _, _, _, _)
bestMoveFromWrongRole(board, available, k, bestMove, bestScore) ==
    IF k > Len(available) THEN bestMove
    ELSE LET move == available[k]
             score == minimax([board EXCEPT ![move] = "O"], 0, TRUE, -Infinity, Infinity)
         IN  IF score > bestScore
             THEN bestMoveFromWrongRole(board, available, k + 1, move, score)
             ELSE bestMoveFromWrongRole(board, available, k + 1, bestMove, bestScore)

\* The top-level loop of getMinimaxMove from the k-th available move on.
RECURSIVE bestMoveFrom(_, _, _, _, _)
bestMoveFrom(board, available, k, bestMove, bestScore) ==
    IF k > Len(available) THEN bestMove
    ELSE LET move == available[k]
             score == minimax([board EXCEPT ![move] = "O"], 0, FALSE, -Infinity, Infinity)
         IN  IF score > bestScore
             THEN bestMoveFrom(board, available, k + 1, move, score)
             ELSE bestMoveFrom(board, available, k + 1, bestMove, bestScore)

\* getMinimaxMove whose best score starts at 0.
getMinimaxMoveFromZero(board) ==
    LET available == getAvailableMoves(board)
    IN  IF Len(available) = 0 THEN nullMove
        ELSE bestMoveFrom(board, available, 1, nullMove, 0)

getMinimaxMove(board) ==
    LET available == getAvailableMoves(board)
    IN  IF Len(available) = 0 THEN nullMove
        ELSE bestMoveFrom(board, available, 1, nullMove, -Infinity)

\* A dispatch that selects the optimal strategy for the token HARD only.
getMoveHardOnly(board, diff) ==
    IF diff = "HARD" THEN {getMinimaxMove(board)}
    ELSE getRandomMove(board)

\* A dispatch that never finds a move.
getMoveNone(board, diff) == {nullMove}

\* getMove: the set of moves the dispatch can return.
getMove(board, diff) ==
    IF diff = "EASY" THEN getRandomMove(board)
    ELSE {getMinimaxMove(board)}

\* ------------------------------------------------------------------ board.js

\* JavaScript's % : the remainder takes the sign of the dividend.
JsRem(a, b) == IF a >= 0 THEN a % b ELSE -((-a) % b)

toIndex(row, col) == row * 3 + col

\* toCoords with row and column exchanged.
toCoordsColumnMajor(index) == [row |-> JsRem(index, 3), col |-> index \div 3]

\* Math.floor(index / 3) is \div, which rounds toward minus infinity.
toCoords(index) == [row |-> index \div 3, col |-> JsRem(index, 3)]

isValid(row, col) == row >= 0 /\ row <= 2 /\ col >= 0 /\ col <= 2

isEmpty(board, row, col) ==
    IF ~isValid(row, col) THEN FALSE
    ELSE board[toIndex(row, col)] = null

\* placeMove without the test of the marker.
placeMoveAnySide(board, row, col, player) ==
    IF ~isValid(row, col) THEN [ok |-> FALSE, cells |-> board]
    ELSE IF ~isEmpty(board, row, col) THEN [ok |-> FALSE, cells |-> board]
    ELSE [ok |-> TRUE, cells |-> [board EXCEPT ![toIndex(row, col)] = player]]

\* placeMove: the value returned and the cells afterwards.
placeMove(board, row, col, player) ==
    IF ~isValid(row, col) THEN [ok |-> FALSE, cells |-> board]
    ELSE IF ~isEmpty(board, row, col) THEN [ok |-> FALSE, cells |-> board]
    ELSE IF player # "X" /\ player # "O" THEN [ok |-> FALSE, cells |-> board]
    ELSE [ok |-> TRUE, cells |-> [board EXCEPT ![toIndex(row, col)] = player]]

placeMoveByIndex(board, index, player) ==
    LET coords == toCoords(index)
    IN  placeMove(board, coords.row, coords.col, player)

\* switchTurn that leaves the turn with the same side.
switchTurnStays(player) == player

switchTurn(player) == IF player = "X" THEN "O" ELSE "X"

\* isGameOver comparing with the wrong status.
isGameOverDrawOnly(st) == st = "DRAW"

isGameOver(st) == st # "ONGOING"

\* An array handed out by a call: its 9 values, and whether it is the very
\* array it was made from (shared storage) or a new one.
\* The spread [...array] makes a new array with the same values.
spread(array) == [value |-> array, shared |-> FALSE]

\* getBoard returning this.cells itself.
getBoardReference(board) == [value |-> board, shared |-> TRUE]

getBoard(board) == spread(board)

\* ------------------------------------------------- ai.js, writes in place

\* minimax writes its trial markers into the array it is given.  The
\* definitions below follow the same statements as minimax, maximizeFrom,
\* minimizeFrom and bestMoveFrom above and also carry the contents of that
\* array: each returns the score (or move) and the array as the call leaves it.
RECURSIVE minimaxInPlace(_, _, _, _, _)
RECURSIVE maximizeInPlaceFrom(_, _, _, _, _, _, _)
RECURSIVE minimizeInPlaceFrom(_, _, _, _, _, _, _)
RECURSIVE maximizeInPlaceBreakFirst(_, _, _, _, _, _, _)

\* The maximizing loop with the pruning test placed before the undo.
maximizeInPlaceBreakFirst(board, depth, available, k, maxScore, alpha, beta) ==
    IF k > Len(available) THEN [score |-> maxScore, board |-> board]
    ELSE LET move == available[k]
             placed == [board EXCEPT ![move] = "O"]
             run == minimaxInPlace(placed, depth + 1, FALSE, alpha, beta)
             undone == [run.board EXCEPT ![move] = null]
             newMax == Max(maxScore, run.score)
             newAlpha == Max(alpha, run.score)
         IN  IF beta <= newAlpha THEN [score |-> newMax, board |-> run.board]
             ELSE maximizeInPlaceBreakFirst(undone, depth, available, k + 1,
                                            newMax, newAlpha, beta)

maximizeInPlaceFrom(board, depth, available, k, maxScore, alpha, beta) ==
    IF k > Len(available) THEN [score |-> maxScore, board |-> board]
    ELSE LET move == available[k]
             placed == [board EXCEPT ![move] = "O"]
             run == minimaxInPlace(placed, depth + 1, FALSE, alpha, beta)
             undone == [run.board EXCEPT ![move] = null]
             newMax == Max(maxScore, run.score)
             newAlpha == Max(alpha, run.score)
         IN  IF beta <= newAlpha THEN [score |-> newMax, board |-> undone]
             ELSE maximizeInPlaceFrom(undone, depth, available, k + 1,
                                      newMax, newAlpha, beta)

minimizeInPlaceFrom(board, depth, available, k, minScore, alpha, beta) ==
    IF k > Len(available) THEN [score |-> minScore, board |-> board]
    ELSE LET move == available[k]
             placed == [board EXCEPT ![move] = "X"]
             run == minimaxInPlace(placed, depth + 1, TRUE, alpha, beta)
             undone == [run.board EXCEPT ![move] = null]
             newMin == Min(minScore, run.score)
             newBeta == Min(beta, run.score)
         IN  IF newBeta <= alpha THEN [score |-> newMin, board |-> undone]
             ELSE minimizeInPlaceFrom(undone, depth, available, k + 1,
                                      newMin, alpha, newBeta)

minimaxInPlace(board, depth, isMaximizing, alpha, beta) ==
    IF checkWin(board, "O") # nullCombo THEN [score |-> 10 - depth, board |-> board]
    ELSE IF checkWin(board, "X") # nullCombo THEN [score |-> depth - 10, board |-> board]
    ELSE IF checkDraw(board) THEN [score |-> 0, board |-> board]
    ELSE LET available == getAvailableMoves(board)
         IN  IF isMaximizing
             THEN maximizeInPlaceFrom(board, depth, available, 1, -Infinity, alpha, beta)
             ELSE minimizeInPlaceFrom(board, depth, available, 1, Infinity, alpha, beta)

\* The loop of getMinimaxMove on its working array: the move and the
\* working array afterwards.
RECURSIVE bestMoveInPlaceFrom(_, _, _, _, _)
bestMoveInPlaceFrom(work, available, k, bestMove, bestScore) ==
    IF k > Len(available) THEN [move |-> bestMove, work |-> work]
    ELSE LET move == available[k]
             placed == [work EXCEPT ![move] = "O"]
             run == minimaxInPlace(placed, 0, FALSE, -Infinity, Infinity)
             undone == [run.board EXCEPT ![move] = null]
         IN  IF run.score > bestScore
             THEN bestMoveInPlaceFrom(undone, available, k + 1, move, run.score)
             ELSE bestMoveInPlaceFrom(undone, available, k + 1, bestMove, bestScore)

\* getMinimaxMove: the move and the caller's array afterwards; the loop
\* works on boardCopy = [...board].
getMinimaxMoveInPlace(board) ==
    LET available == getAvailableMoves(board)
    IN  IF Len(available) = 0 THEN [move |-> nullMove, board |-> board]
        ELSE LET boardCopy == spread(board)
                 best == bestMoveInPlaceFrom(boardCopy.value, available, 1,
                                             nullMove, -Infinity)
             IN  [move |-> best.move,
                  board |-> IF boardCopy.shared THEN best.work ELSE board]

\* getRandomMove only reads the array.
getRandomMoveInPlace(board) ==
    {[move |-> m, board |-> board] : m \in getRandomMove(board)}

getMoveInPlace(board, diff) ==
    IF diff = "EASY" THEN getRandomMoveInPlace(board)
    ELSE {getMinimaxMoveInPlace(board)}

\* ------------------------------------------------------------------ gameEngine.js

\* syncStores: the three board stores take the Board's values.
syncStores(c, p, s) ==
    /\ sBoard' = c
    /\ sCurrentPlayer' = p
    /\ sGameStatus' = s

\* checkGameEnd with the draw forgotten: only a winning line ends the game.
checkGameEndWinsOnly(c, st, w) ==
    LET result == getGameResult(c)
    IN  IF result = "PLAYER_WON" \/ result = "AI_WON"
        THEN [ended |-> TRUE,
              status |-> result,
              combo |-> checkWin(c, IF result = "PLAYER_WON" THEN "X" ELSE "O")]
        ELSE [ended |-> FALSE, status |-> st, combo |-> w]

\* checkGameEnd that stores the winning combination of the player only.
checkGameEndPlayerLineOnly(c, st, w) ==
    LET result == getGameResult(c)
    IN  IF result # "ONGOING"
        THEN [ended |-> TRUE,
              status |-> result,
              combo |-> IF result = "PLAYER_WON" THEN checkWin(c, "X") ELSE w]
        ELSE [ended |-> FALSE, status |-> st, combo |-> w]

\* checkGameEnd on cells c with status st and winning line w: the status and
\* the winning line afterwards, and whether the game ended.
checkGameEnd(c, st, w) ==
    LET result == getGameResult(c)
    IN  IF result # "ONGOING"
        THEN [ended |-> TRUE,
              status |-> result,
              combo |-> IF result = "PLAYER_WON" THEN checkWin(c, "X")
                        ELSE IF result = "AI_WON" THEN checkWin(c, "O")
                        ELSE w]
        ELSE [ended |-> FALSE, status |-> st, combo |-> w]

\* Whether handleAIMove, called with this status and side to move, passes
\* its two guards and suspends at the delay.
aiMoveStarts(st, player) == ~isGameOver(st) /\ player = "O"

Init ==
    /\ cells = EmptyBoard
    /\ currentPlayer = "X"
    /\ status = "ONGOING"
    /\ sBoard = EmptyBoard
    /\ sCurrentPlayer = "X"
    /\ sGameStatus = "ONGOING"
    /\ difficulty = "HARD"
    /\ gameStarted = FALSE
    /\ aiThinking = FALSE
    /\ winningCombination = nullCombo
    /\ pending = 0
    /\ lastOp = "new"
    /\ ret = undefined

\* initializeGame without winningCombination.set(null).
initializeGameKeepsLine(selectedDifficulty) ==
    /\ cells' = EmptyBoard
    /\ currentPlayer' = "X"
    /\ status' = "ONGOING"
    /\ difficulty' = selectedDifficulty
    /\ gameStarted' = TRUE
    /\ aiThinking' = FALSE
    /\ syncStores(EmptyBoard, "X", "ONGOING")
    /\ UNCHANGED <<winningCombination, pending>>

initializeGame(selectedDifficulty) ==
    /\ cells' = EmptyBoard
    /\ currentPlayer' = "X"
    /\ status' = "ONGOING"
    /\ difficulty' = selectedDifficulty
    /\ gameStarted' = TRUE
    /\ aiThinking' = FALSE
    /\ winningCombination' = nullCombo
    /\ syncStores(EmptyBoard, "X", "ONGOING")
    /\ UNCHANGED pending

InitializeGame(selectedDifficulty) ==
    /\ initializeGame(selectedDifficulty)
    /\ lastOp' = "initializeGame"
    /\ ret' = undefined

StartNewGame ==
    /\ initializeGame(difficulty)
    /\ lastOp' = "startNewGame"
    /\ ret' = undefined

\* resetGame without aiThinking.set(false).
ResetGameKeepsThinking ==
    /\ cells' = EmptyBoard
    /\ currentPlayer' = "X"
    /\ status' = "ONGOING"
    /\ gameStarted' = FALSE
    /\ winningCombination' = nullCombo
    /\ syncStores(EmptyBoard, "X", "ONGOING")
    /\ UNCHANGED <<difficulty, aiThinking, pending>>
    /\ lastOp' = "resetGame"
    /\ ret' = undefined

\* resetGame that also returns the difficulty to the stores' default.
ResetGameDefaultDifficulty ==
    /\ cells' = EmptyBoard
    /\ currentPlayer' = "X"
    /\ status' = "ONGOING"
    /\ difficulty' = "HARD"
    /\ gameStarted' = FALSE
    /\ aiThinking' = FALSE
    /\ winningCombination' = nullCombo
    /\ syncStores(EmptyBoard, "X", "ONGOING")
    /\ UNCHANGED pending
    /\ lastOp' = "resetGame"
    /\ ret' = undefined

ResetGame ==
    /\ cells' = EmptyBoard
    /\ currentPlayer' = "X"
    /\ status' = "ONGOING"
    /\ gameStarted' = FALSE
    /\ aiThinking' = FALSE
    /\ winningCombination' = nullCombo
    /\ syncStores(EmptyBoard, "X", "ONGOING")
    /\ UNCHANGED <<difficulty, pending>>
    /\ lastOp' = "resetGame"
    /\ ret' = undefined

\* setDifficulty without the gameStarted guard.
SetDifficultyAlways(newDifficulty) ==
    /\ ret' = "true"
    /\ difficulty' = newDifficulty
    /\ UNCHANGED <<boardVars, sBoard, sCurrentPlayer, sGameStatus, gameStarted,
                   aiThinking, winningCombination, pending>>
    /\ lastOp' = "setDifficulty"

SetDifficulty(newDifficulty) ==
    /\ IF gameStarted
       THEN ret' = "false" /\ UNCHANGED difficulty
       ELSE ret' = "true" /\ difficulty' = newDifficulty
    /\ UNCHANGED <<boardVars, sBoard, sCurrentPlayer, sGameStatus, gameStarted,
                   aiThinking, winningCombination, pending>>
    /\ lastOp' = "setDifficulty"

\* handlePlayerMove whose checkGameEnd does not publish the final status:
\* the stores keep what the sync before checkGameEnd wrote.
handlePlayerMoveEndNotPublished(row, col) ==
    LET placed == placeMove(cells, row, col, "X")
        turn == switchTurn(currentPlayer)
        end == checkGameEnd(placed.cells, status, winningCombination)
    IN  IF isGameOver(status) \/ currentPlayer # "X" \/ aiThinking \/ ~placed.ok
        THEN /\ ret' = "false"
             /\ UNCHANGED <<boardVars, storeVars, pending>>
        ELSE /\ ret' = "true"
             /\ cells' = placed.cells
             /\ currentPlayer' = turn
             /\ status' = end.status
             /\ winningCombination' = end.combo
             /\ syncStores(placed.cells, turn, status)
             /\ UNCHANGED <<difficulty, gameStarted>>
             /\ IF ~end.ended /\ aiMoveStarts(end.status, turn)
                THEN /\ pending < MaxPending
                     /\ aiThinking' = TRUE
                     /\ pending' = pending + 1
                ELSE UNCHANGED <<aiThinking, pending>>

\* handlePlayerMove without its first guard, the game-over check.
handlePlayerMoveNoGameOverCheck(row, col) ==
    LET placed == placeMove(cells, row, col, "X")
        turn == switchTurn(currentPlayer)
        end == checkGameEnd(placed.cells, status, winningCombination)
    IN  IF currentPlayer # "X" \/ aiThinking \/ ~placed.ok
        THEN /\ ret' = "false"
             /\ UNCHANGED <<boardVars, storeVars, pending>>
        ELSE /\ ret' = "true"
             /\ cells' = placed.cells
             /\ currentPlayer' = turn
             /\ status' = end.status
             /\ winningCombination' = end.combo
             /\ syncStores(placed.cells, turn, end.status)
             /\ UNCHANGED <<difficulty, gameStarted>>
             /\ IF ~end.ended /\ aiMoveStarts(end.status, turn)
                THEN /\ pending < MaxPending
                     /\ aiThinking' = TRUE
                     /\ pending' = pending + 1
                ELSE UNCHANGED <<aiThinking, pending>>

\* handlePlayerMove(row, col), with the call of handleAIMove it ends in run
\* up to that call's delay.
handlePlayerMove(row, col) ==
    LET placed == placeMove(cells, row, col, "X")
        turn == switchTurn(currentPlayer)
        end == checkGameEnd(placed.cells, status, winningCombination)
    IN  IF isGameOver(status) \/ currentPlayer # "X" \/ aiThinking \/ ~placed.ok
        THEN /\ ret' = "false"
             /\ UNCHANGED <<boardVars, storeVars, pending>>
        ELSE /\ ret' = "true"
             /\ cells' = placed.cells
             /\ currentPlayer' = turn
             /\ status' = end.status
             /\ winningCombination' = end.combo
             /\ syncStores(placed.cells, turn, end.status)
             /\ UNCHANGED <<difficulty, gameStarted>>
             /\ IF ~end.ended /\ aiMoveStarts(end.status, turn)
                THEN /\ pending < MaxPending
                     /\ aiThinking' = TRUE
                     /\ pending' = pending + 1
                ELSE UNCHANGED <<aiThinking, pending>>

HandlePlayerMove(row, col) ==
    /\ handlePlayerMove(row, col)
    /\ lastOp' = "handlePlayerMove"

HandlePlayerMoveByIndex(index) ==
    /\ LET coords == toCoords(index)
       IN  handlePlayerMove(coords.row, coords.col)
    /\ lastOp' = "handlePlayerMove"

\* handleAIMove() up to its delay: the guards, the lock, the timer.
HandleAIMove ==
    /\ IF aiMoveStarts(status, currentPlayer)
       THEN /\ pending < MaxPending
            /\ aiThinking' = TRUE
            /\ pending' = pending + 1
       ELSE UNCHANGED <<aiThinking, pending>>
    /\ UNCHANGED <<boardVars, sBoard, sCurrentPlayer, sGameStatus, difficulty,
                   gameStarted, winningCombination>>
    /\ lastOp' = "handleAIMove"
    /\ ret' = undefined

\* handleAIMove() from the expiry of its delay to its end.
AIResume ==
    /\ pending > 0
    /\ pending' = pending - 1
    /\ \E move \in getMove(cells, difficulty) :
          IF move # nullMove
          THEN LET placed == placeMoveByIndex(cells, move, "O")
                   turn == switchTurn(currentPlayer)
                   end == checkGameEnd(placed.cells, status, winningCombination)
               IN  /\ cells' = placed.cells
                   /\ currentPlayer' = turn
                   /\ status' = end.status
                   /\ winningCombination' = end.combo
                   /\ syncStores(placed.cells, turn, end.status)
          ELSE UNCHANGED <<boardVars, sBoard, sCurrentPlayer, sGameStatus,
                           winningCombination>>
    /\ aiThinking' = FALSE
    /\ UNCHANGED <<difficulty, gameStarted>>
    /\ lastOp' = "aiResume"
    /\ ret' = undefined

\* ------------------------------------------------------------------ callers

\* The arguments callers pass: every cell of the board, and targets that
\* leave the range on each side of each coordinate.
CoordArgs ==
    ((0..2) \X (0..2)) \cup {<<-1, 1>>, <<3, 1>>, <<1, -1>>, <<1, 3>>, <<-1, -1>>, <<3, 3>>}

IndexArgs == {-1, 0, 4, 8, 9}

\* In Spec the callers explore every interleaving of the engine's operations
\* with the random strategy: they submit moves and trigger computer moves
\* only in a started game whose selected difficulty is EASY, and select
\* another difficulty only while no computer move is pending.  The minimax
\* strategy is run by SpecHard, which also plays the game not yet started.
RandomSelected == difficulty = "EASY" /\ gameStarted

MaySelect(d) == d = "EASY" \/ pending = 0

Next ==
    \/ \E d \in Difficulties : MaySelect(d) /\ InitializeGame(d)
    \/ StartNewGame
    \/ ResetGame
    \/ \E d \in Difficulties : MaySelect(d) /\ SetDifficulty(d)
    \/ RandomSelected /\ \E rc \in CoordArgs : HandlePlayerMove(rc[1], rc[2])
    \/ RandomSelected /\ \E index \in IndexArgs : HandlePlayerMoveByIndex(index)
    \/ RandomSelected /\ HandleAIMove
    \/ AIResume

Spec == Init /\ [][Next]_vars

\* SpecHard: the engine as constructed (difficulty HARD), the human's moves
\* and the computer's replies only: one game, no reset, no second trigger.
NextHard ==
    \/ \E rc \in CoordArgs : HandlePlayerMove(rc[1], rc[2])
    \/ \E index \in IndexArgs : HandlePlayerMoveByIndex(index)
    \/ AIResume

SpecHard == Init /\ [][NextHard]_vars

\* SpecLegal: one game on EASY from its start, the human's calls and the
\* computer's replies only: every legal alternating play, no reset, no second
\* trigger.
NextLegal ==
    \/ ~gameStarted /\ InitializeGame("EASY")
    \/ RandomSelected /\ \E rc \in CoordArgs : HandlePlayerMove(rc[1], rc[2])
    \/ RandomSelected /\ \E index \in IndexArgs : HandlePlayerMoveByIndex(index)
    \/ AIResume

SpecLegal == Init /\ [][NextLegal]_vars

\* The targets the human submits in SpecLive.
LiveArgs == {-1, 0, 1, 4, 5, 8, 9}

\* SpecLive: one game on EASY in which the human submits the targets of
\* LiveArgs and the delay timer of a pending handleAIMove eventually fires
\* (setTimeout resolves after 100-300 ms).
NextLive ==
    \/ ~gameStarted /\ InitializeGame("EASY")
    \/ RandomSelected /\ \E index \in LiveArgs : HandlePlayerMoveByIndex(index)
    \/ AIResume

SpecLive == Init /\ [][NextLive]_vars /\ WF_vars(AIResume)

\* SpecGame: one game on EASY, in which every empty slot can be the
\* computer's reply, with a human who submits any of the 9 slots at any time
\* and keeps submitting a legal move while one would be accepted, and a
\* delay timer that eventually fires.
AcceptedMove ==
    RandomSelected /\ \E index \in Indices :
        HandlePlayerMoveByIndex(index) /\ ret' = "true"

NextGame ==
    \/ ~gameStarted /\ InitializeGame("EASY")
    \/ RandomSelected /\ \E index \in Indices : HandlePlayerMoveByIndex(index)
    \/ AIResume

SpecGame ==
    Init /\ [][NextGame]_vars /\ WF_vars(AIResume) /\ WF_vars(AcceptedMove)

\* ------------------------------------------------- single functions

\* Every 9-slot board over {empty, X, O}, reachable by play or not.
AllBoards == [Indices -> {null, "X", "O"}]

\* A boolean as the caller sees it.
Bool(b) == IF b THEN "true" ELSE "false"

\* The stores and the engine as constructed, no call made yet.
Untouched ==
    /\ sBoard = EmptyBoard
    /\ sCurrentPlayer = "X"
    /\ sGameStatus = "ONGOING"
    /\ difficulty = "HARD"
    /\ gameStarted = FALSE
    /\ aiThinking = FALSE
    /\ winningCombination = nullCombo
    /\ pending = 0
    /\ lastOp = <<"input">>
    /\ ret = undefined

\* SpecBoard: a Board holding any cells, in its first state (X to move,
\* ONGOING) or with O to move and the game drawn, on which one placement is
\* made, by coordinates or by index, with a valid or an invalid marker.
BoardModes == {<<"X", "ONGOING">>, <<"O", "DRAW">>}

SideArgs == {"X", "O", "Z"}

BoardIndexArgs == {-3, -1, 0, 4, 8, 9, 12}

InitBoard ==
    /\ cells \in AllBoards
    /\ \E mode \in BoardModes : currentPlayer = mode[1] /\ status = mode[2]
    /\ Untouched

PlaceMove(row, col, player) ==
    /\ lastOp = <<"input">>
    /\ LET placed == placeMove(cells, row, col, player)
       IN  cells' = placed.cells /\ ret' = Bool(placed.ok)
    /\ lastOp' = <<"placeMove", row, col, player>>
    /\ UNCHANGED <<currentPlayer, status, storeVars, pending>>

PlaceMoveByIndex(index, player) ==
    /\ lastOp = <<"input">>
    /\ LET placed == placeMoveByIndex(cells, index, player)
       IN  cells' = placed.cells /\ ret' = Bool(placed.ok)
    /\ lastOp' = <<"placeMoveByIndex", index, player>>
    /\ UNCHANGED <<currentPlayer, status, storeVars, pending>>

NextBoard ==
    \/ \E rc \in CoordArgs, player \in SideArgs : PlaceMove(rc[1], rc[2], player)
    \/ \E index \in BoardIndexArgs, player \in SideArgs : PlaceMoveByIndex(index, player)

SpecBoard == InitBoard /\ [][NextBoard]_vars

\* SpecAI: the strategies on a board snapshot.  The snapshots are the boards
\* on which O is to move by the count of the markers (one X more than O),
\* with or without winning lines, the full boards among them.  The caller
\* asks getMinimaxMove and then getMove with each token for the same board.
OToMoveBoards ==
    {b \in AllBoards :
        Cardinality({i \in Indices : b[i] = "X"})
            = Cardinality({i \in Indices : b[i] = "O"}) + 1}

\* The tokens handed to getMove: the two difficulties, an unknown one, EASY
\* in lower case, and no token at all.
TokenArgs == Difficulties \cup {"easy", undefined}

InitAI ==
    /\ cells \in OToMoveBoards
    /\ currentPlayer = "O"
    /\ status = "ONGOING"
    /\ Untouched

GetMinimaxMove ==
    /\ lastOp = <<"input">>
    /\ ret' = getMinimaxMove(cells)
    /\ lastOp' = <<"getMinimaxMove">>
    /\ UNCHANGED <<boardVars, storeVars, pending>>

GetMove(token) ==
    /\ lastOp = <<"getMinimaxMove">>
    /\ ret' \in getMove(cells, token)
    /\ lastOp' = <<"getMove", token>>
    /\ UNCHANGED <<boardVars, storeVars, pending>>

NextAI ==
    \/ GetMinimaxMove
    \/ \E token \in TokenArgs : GetMove(token)

SpecAI == InitAI /\ [][NextAI]_vars

\* SpecRules: one of the functions of a board snapshot applied to any 9-slot
\* board, reachable by play or not.
InitRules ==
    /\ cells \in AllBoards
    /\ currentPlayer = "X"
    /\ status = "ONGOING"
    /\ Untouched

GetGameResult ==
    /\ lastOp = <<"input">>
    /\ ret' = getGameResult(cells)
    /\ lastOp' = <<"getGameResult">>
    /\ UNCHANGED <<boardVars, storeVars, pending>>

CheckDraw ==
    /\ lastOp = <<"input">>
    /\ ret' = Bool(checkDraw(cells))
    /\ lastOp' = <<"checkDraw">>
    /\ UNCHANGED <<boardVars, storeVars, pending>>

GetRandomMove ==
    /\ lastOp = <<"input">>
    /\ ret' \in getRandomMove(cells)
    /\ lastOp' = <<"getRandomMove">>
    /\ UNCHANGED <<boardVars, storeVars, pending>>

CheckWin(player) ==
    /\ lastOp = <<"input">>
    /\ ret' = checkWin(cells, player)
    /\ lastOp' = <<"checkWin", player>>
    /\ UNCHANGED <<boardVars, storeVars, pending>>

GetWinningMove(player) ==
    /\ lastOp = <<"input">>
    /\ ret' = getWinningMove(cells, player)
    /\ lastOp' = <<"getWinningMove", player>>
    /\ UNCHANGED <<boardVars, storeVars, pending>>

NextRules ==
    \/ GetGameResult
    \/ CheckDraw
    \/ GetRandomMove
    \/ \E player \in Markers : CheckWin(player)
    \/ \E player \in Markers : GetWinningMove(player)

SpecRules == InitRules /\ [][NextRules]_vars

\* SpecCoords: the coordinate conversions of a Board, each applied to
\* arguments in and around the board and then converted back.
CoordIndexArgs == (-9)..17

CoordPairArgs == ((-1)..3) \X ((-1)..3)

InitCoords ==
    /\ cells = EmptyBoard
    /\ currentPlayer = "X"
    /\ status = "ONGOING"
    /\ Untouched

ToCoords(index) ==
    /\ lastOp = <<"input">>
    /\ ret' = toCoords(index)
    /\ lastOp' = <<"toCoords", index>>
    /\ UNCHANGED <<boardVars, storeVars, pending>>

ToIndex(row, col) ==
    /\ lastOp = <<"input">>
    /\ ret' = toIndex(row, col)
    /\ lastOp' = <<"toIndex", row, col>>
    /\ UNCHANGED <<boardVars, storeVars, pending>>

\* toIndex applied to the coordinates toCoords returned.
ToIndexOfCoords ==
    /\ lastOp[1] = "toCoords"
    /\ ret' = toIndex(ret.row, ret.col)
    /\ lastOp' = <<"toIndex(toCoords)", lastOp[2]>>
    /\ UNCHANGED <<boardVars, storeVars, pending>>

\* toCoords applied to the index toIndex returned.
ToCoordsOfIndex ==
    /\ lastOp[1] = "toIndex"
    /\ ret' = toCoords(ret)
    /\ lastOp' = <<"toCoords(toIndex)", lastOp[2], lastOp[3]>>
    /\ UNCHANGED <<boardVars, storeVars, pending>>

NextCoords ==
    \/ \E index \in CoordIndexArgs : ToCoords(index)
    \/ \E rc \in CoordPairArgs : ToIndex(rc[1], rc[2])
    \/ ToIndexOfCoords
    \/ ToCoordsOfIndex

SpecCoords == InitCoords /\ [][NextCoords]_vars

\* SpecSnapshot: a Board whose cells are handed out by getBoard, to a caller
\* or through syncStores to the store, after which the holder writes into the
\* snapshot or the Board places a marker.
SnapshotValues == {null, "X", "O", "MODIFIED"}

InitSnapshot ==
    /\ cells \in OToMoveBoards
    /\ currentPlayer = "O"
    /\ status = "ONGOING"
    /\ Untouched

GetBoard ==
    /\ lastOp = <<"input">>
    /\ ret' = getBoard(cells)
    /\ lastOp' = <<"getBoard">>
    /\ UNCHANGED <<boardVars, storeVars, pending>>

\* syncStores: board.set(this.board.getBoard()) and the two other stores.
SyncStores ==
    /\ lastOp = <<"input">>
    /\ ret' = getBoard(cells)
    /\ sBoard' = ret'.value
    /\ sCurrentPlayer' = currentPlayer
    /\ sGameStatus' = status
    /\ lastOp' = <<"syncStores">>
    /\ UNCHANGED <<boardVars, difficulty, gameStarted, aiThinking,
                   winningCombination, pending>>

\* The holder of the snapshot writes value v into its slot i; the write
\* reaches the Board's cells exactly when the storage is shared.
WriteSnapshot(i, v) ==
    /\ lastOp \in {<<"getBoard">>, <<"syncStores">>}
    /\ ret' = [ret EXCEPT !.value[i] = v]
    /\ cells' = IF ret.shared THEN [cells EXCEPT ![i] = v] ELSE cells
    /\ sBoard' = IF lastOp = <<"syncStores">> THEN ret'.value ELSE sBoard
    /\ lastOp' = <<"write", i, v>>
    /\ UNCHANGED <<currentPlayer, status, sCurrentPlayer, sGameStatus, difficulty,
                   gameStarted, aiThinking, winningCombination, pending>>

\* The Board places a marker after publishing; the published snapshot
\* follows exactly when the storage is shared.
PlaceAfterSync(index, player) ==
    /\ lastOp = <<"syncStores">>
    /\ cells' = placeMoveByIndex(cells, index, player).cells
    /\ sBoard' = IF ret.shared THEN cells' ELSE sBoard
    /\ lastOp' = <<"placeMoveByIndex", index, player>>
    /\ UNCHANGED <<currentPlayer, status, sCurrentPlayer, sGameStatus, difficulty,
                   gameStarted, aiThinking, winningCombination, pending, ret>>

NextSnapshot ==
    \/ GetBoard
    \/ SyncStores
    \/ \E i \in Indices, v \in SnapshotValues : WriteSnapshot(i, v)
    \/ \E index \in Indices : PlaceAfterSync(index, "O")

SpecSnapshot == InitSnapshot /\ [][NextSnapshot]_vars

\* SpecSearch: a caller hands its own array to one of the search functions,
\* the exported minimax in either role included, and keeps the array.
SearchTokens == {"EASY", "HARD"}

InitSearch ==
    /\ cells \in OToMoveBoards
    /\ currentPlayer = "O"
    /\ status = "ONGOING"
    /\ Untouched

RunMinimax(isMaximizing) ==
    /\ lastOp = <<"input">>
    /\ LET run == minimaxInPlace(cells, 0, isMaximizing, -Infinity, Infinity)
       IN  cells' = run.board /\ ret' = run.score
    /\ lastOp' = <<"minimax", Bool(isMaximizing)>>
    /\ UNCHANGED <<currentPlayer, status, storeVars, pending>>

RunGetMinimaxMove ==
    /\ lastOp = <<"input">>
    /\ LET run == getMinimaxMoveInPlace(cells)
       IN  cells' = run.board /\ ret' = run.move
    /\ lastOp' = <<"getMinimaxMove">>
    /\ UNCHANGED <<currentPlayer, status, storeVars, pending>>

RunGetRandomMove ==
    /\ lastOp = <<"input">>
    /\ \E run \in getRandomMoveInPlace(cells) : cells' = run.board /\ ret' = run.move
    /\ lastOp' = <<"getRandomMove">>
    /\ UNCHANGED <<currentPlayer, status, storeVars, pending>>

RunGetMove(token) ==
    /\ lastOp = <<"input">>
    /\ \E run \in getMoveInPlace(cells, token) : cells' = run.board /\ ret' = run.move
    /\ lastOp' = <<"getMove", token>>
    /\ UNCHANGED <<currentPlayer, status, storeVars, pending>>

NextSearch ==
    \/ \E isMaximizing \in BOOLEAN : RunMinimax(isMaximizing)
    \/ RunGetMinimaxMove
    \/ RunGetRandomMove
    \/ \E token \in SearchTokens : RunGetMove(token)

SpecSearch == InitSearch /\ [][NextSearch]_vars

\* Side m holds all three cells of some winning line of board.
HoldsLine(board, m) ==
    \E k \in 1..Len(WIN_COMBINATIONS) :
        \A j \in 1..3 : board[WIN_COMBINATIONS[k][j]] = m

\* SpecOptimal: SpecHard with a human who plays optimally.  The value of a
\* position is that of the full game tree under minimax's scores, no pruning.
SetMax(S) == CHOOSE x \in S : \A y \in S : y <= x

SetMin(S) == CHOOSE x \in S : \A y \in S : x <= y

RECURSIVE exactValue(_, _, _)
exactValue(board, depth, isMaximizing) ==
    IF checkWin(board, "O") # nullCombo THEN 10 - depth
    ELSE IF checkWin(board, "X") # nullCombo THEN depth - 10
    ELSE IF \A i \in Indices : board[i] # null THEN 0
    ELSE LET children ==
                 {exactValue([board EXCEPT ![i] = IF isMaximizing THEN "O" ELSE "X"],
                             depth + 1, ~isMaximizing) :
                      i \in {j \in Indices : board[j] = null}}
         IN  IF isMaximizing THEN SetMax(children) ELSE SetMin(children)

\* The empty slots whose choice by X leaves a position of least value.
OptimalMoves(board) ==
    LET empty == {i \in Indices : board[i] = null}
        value(i) == exactValue([board EXCEPT ![i] = "X"], 0, TRUE)
        least == SetMin({value(i) : i \in empty})
    IN  {i \in empty : value(i) = least}

OptimalPlayerMove ==
    /\ ~isGameOver(status)
    /\ currentPlayer = "X"
    /\ ~aiThinking
    /\ \E index \in OptimalMoves(cells) : HandlePlayerMoveByIndex(index)

NextOptimal ==
    \/ OptimalPlayerMove
    \/ AIResume

SpecOptimal == Init /\ [][NextOptimal]_vars

\* SpecPruning: minimax called with the full window on every board that
\* legal alternating play reaches, finished games included, in both roles
\* and at the depths of DepthArgs.
LegalBoards ==
    {b \in AllBoards :
        LET x == Cardinality({i \in Indices : b[i] = "X"})
            o == Cardinality({i \in Indices : b[i] = "O"})
        IN  /\ x \in {o, o + 1}
            /\ HoldsLine(b, "X") => (x = o + 1 /\ ~HoldsLine(b, "O"))
            /\ HoldsLine(b, "O") => x = o}

\* The depths callers pass.  Tests and getMinimaxMove call minimax at depth
\* 0; a call at a depth d > 0 is one the search makes after d further trial
\* placements, on a board that holds at least d + 2 markers.
DepthArgs == {0, 1, 2}

Marked(board) == Cardinality({i \in Indices : board[i] # null})

InitPruning ==
    /\ cells \in LegalBoards
    /\ currentPlayer = "X"
    /\ status = "ONGOING"
    /\ Untouched

Minimax(depth, isMaximizing) ==
    /\ lastOp = <<"input">>
    /\ Marked(cells) >= (IF depth = 0 THEN 0 ELSE depth + 2)
    /\ ret' = minimax(cells, depth, isMaximizing, -Infinity, Infinity)
    /\ lastOp' = <<"minimax", depth, Bool(isMaximizing)>>
    /\ UNCHANGED <<boardVars, storeVars, pending>>

NextPruning ==
    \E depth \in DepthArgs, isMaximizing \in BOOLEAN : Minimax(depth, isMaximizing)

SpecPruning == InitPruning /\ [][NextPruning]_vars

\* ------------------------------------------------------------------ claims

\* The number of cells of the board holding marker m.
Count(m) == Cardinality({i \in Indices : cells[i] = m})

\* Side m holds all three cells of some winning line.
HasLine(m) == HoldsLine(cells, m)

\* The state resetGame leaves, as a caller observes it.
CleanReset ==
    /\ cells = EmptyBoard
    /\ currentPlayer = "X"
    /\ status = "ONGOING"
    /\ aiThinking = FALSE
    /\ winningCombination = nullCombo
    /\ sBoard = EmptyBoard
    /\ sCurrentPlayer = "X"
    /\ sGameStatus = "ONGOING"

\* The steps that reset the board.
ResetOps == {"resetGame", "initializeGame", "startNewGame"}

\* C1: when resetGame is called while a computer move is pending, the state
\* after the delayed computation resolves is still the clean reset state: no
\* O on the board, X to move, ONGOING, not thinking, no winning line.
C1_ResetWhilePendingStaysClean ==
    [][(lastOp = "resetGame" /\ lastOp' = "aiResume") => CleanReset']_vars

\* C2: at most one computer-move sequence is outstanding in every reachable
\* state; a trigger while one is pending starts no second one.
C2_AtMostOneOutstanding == pending <= 1

\* C3: while a computer-move sequence is pending, every handlePlayerMove call
\* returns false and places nothing, also after a reset or a new start
\* inside the interval.
C3_RefusedWhilePending ==
    [][(pending > 0 /\ lastOp' = "handlePlayerMove")
        => (ret' = "false" /\ cells' = cells)]_vars

\* C4: markers alternate X, O, X, O, ... from X between two resets, so the
\* board always holds as many X as O, or one X more.
C4_MarkersAlternate == Count("X") - Count("O") \in {0, 1}

\* C5: once the status is terminal, no cell, nor the status, nor the side to
\* move changes until resetGame or initializeGame.
C5_TerminalIsFinal ==
    [][(isGameOver(status) /\ lastOp' \notin ResetOps)
        => UNCHANGED <<cells, status, currentPlayer>>]_vars

\* C6: between engine operations the status is getGameResult of the cells,
\* and it is ONGOING exactly when neither side has a winning line and some
\* slot is empty.
C6_StatusIsResult ==
    /\ status = getGameResult(cells)
    /\ (status = "ONGOING") <=>
          (~HasLine("X") /\ ~HasLine("O") /\ \E i \in Indices : cells[i] = null)

\* C6 witness: a human move filled the board without a line and ended the game.
C6_Witness ==
    /\ lastOp = "handlePlayerMove"
    /\ ret = "true"
    /\ status = "DRAW"
    /\ Count(null) = 0

\* C7: the HARD computer player is unbeatable: whatever legal moves the human
\* plays from the empty board, each answered by getMinimaxMove, the status
\* never becomes PLAYER_WON and X never holds a line.
C7_HardNeverLoses == status # "PLAYER_WON" /\ ~HasLine("X")

\* C7 witness: a game against HARD played to its end, lost by the human.
C7_Witness ==
    /\ difficulty = "HARD"
    /\ lastOp = "aiResume"
    /\ status = "AI_WON"
    /\ HasLine("O")

\* C8: optimal play on both sides from the empty board ends in a draw: no
\* side ever wins, an unfinished game always has a next move, and the game
\* over is a full board without a winning line.
C8_OptimalPlayDraws ==
    /\ status \in {"ONGOING", "DRAW"}
    /\ status = "ONGOING" =>
           \/ pending > 0
           \/ currentPlayer = "X" /\ ~aiThinking /\ Count(null) > 0
    /\ status = "DRAW" => (Count(null) = 0 /\ ~HasLine("X") /\ ~HasLine("O"))

\* C8 witness: the optimal human's last move filled the board: a draw.
C8_Witness ==
    /\ lastOp = "handlePlayerMove"
    /\ ret = "true"
    /\ status = "DRAW"
    /\ Count("X") = 5
    /\ Count("O") = 4

\* The conditions under which handlePlayerMove(row, col) must refuse.
MustRefuse(row, col) ==
    \/ status # "ONGOING"
    \/ currentPlayer # "X"
    \/ aiThinking
    \/ row \notin 0..2
    \/ col \notin 0..2
    \/ cells[3 * row + col] # null

\* The same for handlePlayerMoveByIndex(index).
MustRefuseIndex(index) ==
    \/ status # "ONGOING"
    \/ currentPlayer # "X"
    \/ aiThinking
    \/ index \notin 0..8
    \/ cells[index] # null

\* A step in which the call returned false and nothing of the engine changed.
RefusedStep ==
    /\ ret' = "false"
    /\ UNCHANGED <<boardVars, storeVars, pending>>

\* C9: handlePlayerMove / handlePlayerMoveByIndex returns false and leaves the
\* board, the side to move, the status, the thinking flag, the winning line
\* and the difficulty unchanged when the game is over, or it is not X's
\* turn, or the computer is thinking, or the target is out of range or
\* occupied: every step of a call is a refused step, or else it is the step
\* of no call whose arguments or state demand a refusal.
C9_RefusedMoveChangesNothing ==
    [][lastOp' = "handlePlayerMove" =>
        \/ RefusedStep
        \/ /\ \A rc \in CoordArgs :
                 ~(MustRefuse(rc[1], rc[2]) /\ HandlePlayerMove(rc[1], rc[2]))
           /\ \A index \in IndexArgs :
                 ~(MustRefuseIndex(index) /\ HandlePlayerMoveByIndex(index))]_vars

\* C9 witness: a move submitted on a finished board was refused.
C9_Witness ==
    /\ lastOp = "handlePlayerMove"
    /\ ret = "false"
    /\ isGameOver(status)
    /\ currentPlayer = "X"
    /\ Count(null) > 0

\* C10: after an accepted human move, a terminal board has its status and
\* winning line recorded, no computer move started and the thinking flag
\* false; a non-terminal board has O to move, the thinking flag true and
\* exactly one computer-move sequence pending.
C10_AfterAcceptedMove ==
    [][(lastOp' = "handlePlayerMove" /\ ret' = "true")
        => IF getGameResult(cells') # "ONGOING"
           THEN /\ status' = getGameResult(cells')
                /\ winningCombination' = checkWin(cells', "X")
                /\ pending' = pending
                /\ aiThinking' = FALSE
           ELSE /\ currentPlayer' = "O"
                /\ aiThinking' = TRUE
                /\ pending' = 1]_vars

\* The state right after handlePlayerMove accepted a move that did not end
\* the game.
AcceptedOngoing == lastOp = "handlePlayerMove" /\ ret = "true" /\ status = "ONGOING"

\* The state right after the computer's reply has been applied and published.
ReplyDone ==
    /\ lastOp = "aiResume"
    /\ pending = 0
    /\ aiThinking = FALSE
    /\ status = getGameResult(cells)
    /\ isGameOver(status) \/ currentPlayer = "X"
    /\ sBoard = cells /\ sCurrentPlayer = currentPlayer /\ sGameStatus = status

\* C11: after every accepted non-terminal human move (the n-th X), if the
\* delay timer fires and nothing resets the game, eventually the computer
\* has placed exactly one O (the n-th) on an empty slot, the status is
\* re-derived, the thinking flag is false, and the game is over or it is X's
\* turn.
C11_ReplyEventuallyApplied ==
    \A n \in 1..4 :
        (AcceptedOngoing /\ Count("X") = n /\ Count("O") = n - 1)
            ~> (ReplyDone /\ Count("X") = n /\ Count("O") = n)

\* C11 witness: the reply to the human's fourth move has been applied and
\* the game goes on.
C11_Witness ==
    /\ ReplyDone
    /\ Count("X") = 4
    /\ Count("O") = 4
    /\ status = "ONGOING"
    /\ currentPlayer = "X"

\* C20: on every board reached by legal alternating play from the empty
\* board (X first, one empty slot per move, play stopping at the first line)
\* at most one of the two sides has a winning line.
C20_AtMostOneWinner ==
    /\ ~(HasLine("X") /\ HasLine("O"))
    /\ checkWin(cells, "X") = nullCombo \/ checkWin(cells, "O") = nullCombo

\* C20 witness: O completed a line on its fourth move and X has none.
C20_Witness ==
    /\ lastOp = "aiResume"
    /\ Count("X") = 4
    /\ Count("O") = 4
    /\ checkWin(cells, "O") # nullCombo
    /\ checkWin(cells, "X") = nullCombo

\* What a placement of side on slot target must do: succeed exactly when the
\* target is in range and empty and the side is a marker, then change that
\* slot only; otherwise fail and change no slot.  Never the turn or status.
PlacementContract(inRange, target, side) ==
    LET legal == inRange /\ cells[target] = null /\ side \in {"X", "O"}
    IN  /\ (ret' = "true") <=> legal
        /\ (ret' = "false") <=> ~legal
        /\ legal => cells' = [cells EXCEPT ![target] = side]
        /\ ~legal => cells' = cells
        /\ UNCHANGED <<currentPlayer, status>>

\* C12: placeMove(row, col, side) returns true exactly when row and col are
\* in 0..2, the slot is empty and side is X or O, and then sets that slot
\* only; in every other case it returns false and changes no slot; the side
\* to move and the status are never read or changed.  placeMoveByIndex does
\* the same for index in 0..8.
C12_PlaceMoveContract ==
    [][/\ lastOp'[1] = "placeMove" =>
            PlacementContract(lastOp'[2] \in 0..2 /\ lastOp'[3] \in 0..2,
                              3 * lastOp'[2] + lastOp'[3], lastOp'[4])
       /\ lastOp'[1] = "placeMoveByIndex" =>
            PlacementContract(lastOp'[2] \in 0..8, lastOp'[2], lastOp'[3])]_vars

\* C12 witness: X was placed by index on a drawn board with O to move.
C12_Witness ==
    /\ lastOp = <<"placeMoveByIndex", 8, "X">>
    /\ ret = "true"
    /\ cells[8] = "X"
    /\ status = "DRAW"
    /\ currentPlayer = "O"

\* The empty slots of the board.
Empty == {i \in Indices : cells[i] = null}

\* The empty slots on which side m would complete a winning line.
WinningSlots(m) == {i \in Empty : HoldsLine([cells EXCEPT ![i] = m], m)}

\* No side has a line and a slot is empty: play goes on.
NonTerminal == ~HasLine("X") /\ ~HasLine("O") /\ Empty # {}

\* C13: for every board and every difficulty token, getMove returns null if
\* and only if the board has no empty slot, and otherwise the index of an
\* empty slot, also on a board that already holds a winning line.
C13_GetMoveReturnsEmptySlot ==
    lastOp[1] = "getMove" =>
        /\ (ret = nullMove) <=> (Empty = {})
        /\ ret # nullMove => ret \in Empty

\* C13 witness: on a board with a winning line and empty slots, getMove with
\* an unknown token returned an empty slot.
C13_Witness ==
    /\ lastOp = <<"getMove", "UNKNOWN">>
    /\ HasLine("X")
    /\ ret \in Empty

\* C14: on a non-terminal board with O to move on which some empty slot
\* completes a line for O, getMinimaxMove returns such a slot, also when
\* another slot would block an immediate win of X.
C14_TakesImmediateWin ==
    (lastOp[1] = "getMinimaxMove" /\ NonTerminal /\ WinningSlots("O") # {})
        => ret \in WinningSlots("O")

\* C14 witness: O could win at once or block X elsewhere, and took the win.
C14_Witness ==
    /\ lastOp[1] = "getMinimaxMove"
    /\ NonTerminal
    /\ ret \in WinningSlots("O")
    /\ WinningSlots("X") \ WinningSlots("O") # {}

\* C15: on a non-terminal board with O to move on which O has no slot that
\* wins at once and X has exactly one slot that would complete a line,
\* getMinimaxMove returns that slot.
C15_BlocksSingleThreat ==
    (/\ lastOp[1] = "getMinimaxMove"
     /\ NonTerminal
     /\ WinningSlots("O") = {}
     /\ Cardinality(WinningSlots("X")) = 1)
        => ret \in WinningSlots("X")

\* C15 witness: X at 0 and 1, O at 3, the rest empty: the answer is 2.
C15_Witness ==
    /\ lastOp[1] = "getMinimaxMove"
    /\ cells = [i \in Indices |-> IF i \in {0, 1} THEN "X" ELSE IF i = 3 THEN "O" ELSE null]
    /\ ret = 2

\* C16: on a board whose only marker is an X in a corner the optimal strategy
\* returns the center; on a board whose only marker is an X in the center it
\* returns a corner.
C16_OpeningReplies ==
    (lastOp[1] = "getMinimaxMove" /\ Count("X") = 1 /\ Count("O") = 0) =>
        /\ (\E c \in {0, 2, 6, 8} : cells[c] = "X") => ret = 4
        /\ cells[4] = "X" => ret \in {0, 2, 6, 8}

\* C16 witness: the only marker is an X in the corner 8; the answer is 4.
C16_Witness ==
    /\ lastOp[1] = "getMinimaxMove"
    /\ cells = [EmptyBoard EXCEPT ![8] = "X"]
    /\ ret = 4

\* C17: getMove with any token other than exactly EASY returns what
\* getMinimaxMove returned for the same board; with EASY it selects the
\* random strategy, under which every empty slot can be returned.
C17_DispatchDefaultsToOptimal ==
    [][/\ (lastOp = <<"getMinimaxMove">> /\ lastOp'[1] = "getMove" /\ lastOp'[2] # "EASY")
            => ret' = ret
       /\ lastOp = <<"getMinimaxMove">>
            => \A i \in Empty : ENABLED (GetMove("EASY") /\ ret' = i)]_vars

\* C17 witness: getMove with the token in lower case gave the optimal move on
\* a board with several empty slots.
C17_Witness ==
    /\ lastOp = <<"getMove", "easy">>
    /\ Cardinality(Empty) > 1
    /\ ret = getMinimaxMove(cells)

\* C18: the random strategy returns only empty slots and can return every
\* empty slot; with one empty slot it returns that slot, with none null.
C18_RandomMoveIsAnyEmptySlot ==
    /\ lastOp = <<"getRandomMove">> =>
           /\ (ret = nullMove) <=> (Empty = {})
           /\ ret # nullMove => ret \in Empty
           /\ \A k \in Indices : Empty = {k} => ret = k
    /\ lastOp = <<"input">> =>
           /\ \A i \in Empty : ENABLED (GetRandomMove /\ ret' = i)
           /\ Empty = {} => ENABLED (GetRandomMove /\ ret' = nullMove)

\* C18 witness: the board had one empty slot, the last, and it was returned.
C18_Witness ==
    /\ lastOp = <<"getRandomMove">>
    /\ Empty = {8}
    /\ ret = 8

\* The classification of the board in the fixed order X, O, full, else.
Classified ==
    IF HasLine("X") THEN "PLAYER_WON"
    ELSE IF HasLine("O") THEN "AI_WON"
    ELSE IF Empty = {} THEN "DRAW"
    ELSE "ONGOING"

\* C19: on every 9-slot board getGameResult is PLAYER_WON iff X has a line,
\* else AI_WON iff O has a line, else DRAW iff the board is full, else
\* ONGOING (both sides with a line: PLAYER_WON); checkDraw is true exactly
\* in the DRAW case.
C19_ClassificationOrder ==
    /\ lastOp = <<"getGameResult">> => ret = Classified
    /\ lastOp = <<"checkDraw">> => ((ret = "true") <=> (Classified = "DRAW"))
    /\ lastOp = <<"checkDraw">> => ((ret = "false") <=> (Classified # "DRAW"))

\* C19 witness: both sides hold a line and the result is PLAYER_WON.
C19_Witness ==
    /\ lastOp = <<"getGameResult">>
    /\ HasLine("X")
    /\ HasLine("O")
    /\ ret = "PLAYER_WON"

\* The positions in WIN_COMBINATIONS of the lines side m fully occupies.
LinesOf(board, m) ==
    {k \in 1..Len(WIN_COMBINATIONS) :
        \A j \in 1..3 : board[WIN_COMBINATIONS[k][j]] = m}

\* The slots of the k-th winning line.
LineSlots(k) == {WIN_COMBINATIONS[k][j] : j \in 1..3}

\* C21 as stated: on every board reached by legal alternating play a side
\* fully occupies at most one of the 8 winning lines.
C21_AtMostOneLinePerSide ==
    \A m \in Markers : Cardinality(LinesOf(cells, m)) <= 1

\* C21 amended: in legal alternating play a side fully occupies at most two
\* winning lines; two lines cross in one slot and are completed by the same
\* move (a side's lines appear all at once, on a board where it had none);
\* checkWin reports the line that comes first in WIN_COMBINATIONS.
C21_AtMostTwoCrossingLines ==
    [][\A m \in Markers :
          LET before == LinesOf(cells, m)
              after == LinesOf(cells', m)
          IN  /\ Cardinality(after) <= 2
              /\ \A k1, k2 \in after : LineSlots(k1) \cap LineSlots(k2) # {}
              /\ after # before => before = {}
              /\ checkWin(cells', m) =
                     IF after = {} THEN nullCombo
                     ELSE WIN_COMBINATIONS[SetMin(after)]]_vars

\* C21 witness: X completed the first row and the first column with one move
\* and the row, first in scan order, is the published winning line.
C21_Witness ==
    /\ lastOp = "handlePlayerMove"
    /\ ret = "true"
    /\ LinesOf(cells, "X") = {1, 4}
    /\ status = "PLAYER_WON"
    /\ winningCombination = <<0, 1, 2>>

\* C22: after initializeGame(d), from any reachable state, the 9 slots are
\* empty, X is to move, the status is ONGOING, the difficulty is d,
\* gameStarted is true, the thinking flag false, the winning line none, and
\* the published snapshot shows the same.
C22_InitializeGameStartsClean ==
    [][/\ lastOp' = "initializeGame" => (CleanReset' /\ gameStarted' = TRUE)
       /\ \A d \in Difficulties : InitializeGame(d) => difficulty' = d]_vars

\* C22 witness: initializeGame with EASY, called while a computer move was
\* pending.
C22_Witness ==
    /\ lastOp = "initializeGame"
    /\ pending > 0
    /\ difficulty = "EASY"
    /\ CleanReset
    /\ gameStarted

\* C23: after resetGame(), from any reachable state, the 9 slots are empty,
\* X is to move, the status is ONGOING, gameStarted and the thinking flag
\* are false and the winning line is none; another resetGame changes nothing.
C23_ResetGameIsCleanAndIdempotent ==
    lastOp = "resetGame" =>
        /\ CleanReset
        /\ gameStarted = FALSE
        /\ ~ENABLED (ResetGame /\ vars' # vars)

\* C23 witness: resetGame called while a computer move was pending.
C23_Witness ==
    /\ lastOp = "resetGame"
    /\ pending > 0
    /\ CleanReset
    /\ ~gameStarted

\* C24: resetGame leaves the selected difficulty as it was.
C24_ResetKeepsDifficulty ==
    [][lastOp' = "resetGame" => difficulty' = difficulty]_vars

\* C24 witness: after a reset the difficulty is still EASY, not the default.
C24_Witness ==
    /\ lastOp = "resetGame"
    /\ difficulty = "EASY"

\* C25: setDifficulty(d) returns true and sets the difficulty to d only when
\* the game has not started; in a started game it returns false and changes
\* nothing, so there the difficulty changes only through initializeGame.
C25_DifficultyLockedAfterStart ==
    [][/\ lastOp' = "setDifficulty" =>
            /\ UNCHANGED <<boardVars, sBoard, sCurrentPlayer, sGameStatus,
                           gameStarted, aiThinking, winningCombination, pending>>
            /\ IF gameStarted
               THEN ret' = "false" /\ difficulty' = difficulty
               ELSE ret' = "true"
       /\ \A d \in Difficulties : (~gameStarted /\ SetDifficulty(d)) => difficulty' = d
       /\ (gameStarted /\ difficulty' # difficulty) => lastOp' = "initializeGame"]_vars

\* C25 witness: setDifficulty refused in a started game.
C25_Witness ==
    /\ lastOp = "setDifficulty"
    /\ ret = "false"
    /\ gameStarted
    /\ difficulty = "EASY"

\* C26: the published winning line is a triple iff the status is PLAYER_WON
\* or AI_WON; it is then checkWin of the winner and its three slots hold the
\* winner's marker; it is none when the status is ONGOING or DRAW, and after
\* resetGame and initializeGame.
C26_WinningLineMatchesStatus ==
    /\ (winningCombination # nullCombo) <=> (status \in {"PLAYER_WON", "AI_WON"})
    /\ status = "PLAYER_WON" =>
           /\ winningCombination = checkWin(cells, "X")
           /\ \A j \in 1..3 : cells[winningCombination[j]] = "X"
    /\ status = "AI_WON" =>
           /\ winningCombination = checkWin(cells, "O")
           /\ \A j \in 1..3 : cells[winningCombination[j]] = "O"
    /\ lastOp \in ResetOps => winningCombination = nullCombo

\* C26 witness: the computer completed a line and it is published.
C26_Witness ==
    /\ lastOp = "aiResume"
    /\ status = "AI_WON"
    /\ Len(winningCombination) = 3
    /\ \A j \in 1..3 : cells[winningCombination[j]] = "O"

\* C27: every move the computer applies targets an empty slot of 0..8, no
\* slot ever changes from one marker to the other, and a slot becomes empty
\* again only through resetGame / initializeGame.
C27_ComputerMoveIsLegal ==
    [][/\ lastOp' = "aiResume" =>
            IF Empty = {} THEN cells' = cells
            ELSE \E i \in Empty : cells' = [cells EXCEPT ![i] = "O"]
       /\ \A i \in Indices :
            (cells[i] # null /\ cells'[i] # cells[i]) =>
                (cells'[i] = null /\ lastOp' \in ResetOps)]_vars

\* C27 witness: the computer's move filled the last empty slot.
C27_Witness ==
    /\ lastOp = "aiResume"
    /\ Empty = {}
    /\ Count("O") >= Count("X")

\* C28: the conversions are inverse bijections on the 9 positions:
\* toIndex(toCoords(i)) = i for i in 0..8, toCoords(toIndex(r, c)) = (r, c)
\* for r, c in 0..2, toIndex(r, c) = 3r + c, and toCoords maps 0..8 into the
\* coordinates 0..2.
C28_CoordinateRoundTrip ==
    /\ (lastOp[1] = "toIndex(toCoords)" /\ lastOp[2] \in 0..8) => ret = lastOp[2]
    /\ (lastOp[1] = "toCoords(toIndex)" /\ lastOp[2] \in 0..2 /\ lastOp[3] \in 0..2)
           => ret = [row |-> lastOp[2], col |-> lastOp[3]]
    /\ (lastOp[1] = "toIndex" /\ lastOp[2] \in 0..2 /\ lastOp[3] \in 0..2)
           => (ret = 3 * lastOp[2] + lastOp[3] /\ ret \in 0..8)
    /\ (lastOp[1] = "toCoords" /\ lastOp[2] \in 0..8)
           => (ret.row \in 0..2 /\ ret.col \in 0..2)

\* C28 witness: index 7 was converted to coordinates and back to 7.
C28_Witness ==
    /\ lastOp = <<"toIndex(toCoords)", 7>>
    /\ ret = 7

\* C29: getBoard returns an independent copy: a write into any slot of a
\* returned snapshot changes no cell of the Board (so nothing that a later
\* getBoard, getCell or getCellByIndex returns), and the snapshot published
\* by syncStores does not follow a later placement on the Board.
C29_SnapshotIsIndependent ==
    [][/\ lastOp'[1] = "write" => cells' = cells
       /\ lastOp'[1] = "placeMoveByIndex" => sBoard' = sBoard]_vars

\* C29 witness: slot 0 of a snapshot was overwritten and the Board's slot 0
\* is still empty.
C29_Witness ==
    /\ lastOp = <<"write", 0, "MODIFIED">>
    /\ ret.value[0] = "MODIFIED"
    /\ cells[0] = null

\* C30: move search leaves the caller's board as it was: after getMove,
\* getRandomMove, getMinimaxMove and the exported minimax (which writes its
\* trial markers into the array it is given) return, the array holds the
\* same 9 values as before, also after a pruning break; and the score
\* minimax returns is that of the position it was given.
C30_SearchRestoresBoard ==
    [][/\ lastOp = <<"input">> => cells' = cells
       /\ lastOp' = <<"minimax", "true">> =>
              ret' = minimax(cells, 0, TRUE, -Infinity, Infinity)
       /\ lastOp' = <<"minimax", "false">> =>
              ret' = minimax(cells, 0, FALSE, -Infinity, Infinity)]_vars

\* C30 witness: minimax, maximizing, returned on a board without a line
\* whose six empty slots are still empty.
C30_Witness ==
    /\ lastOp = <<"minimax", "true">>
    /\ NonTerminal
    /\ Cardinality(Empty) = 6
    /\ ret \in (-10)..10

\* C31: on a board without a line, O to move, on which O has no slot that
\* wins at once and X has two or more slots that would each complete a line
\* of X, getMinimaxMove returns one of those slots of X.
C31_BlocksOneOfTwoThreats ==
    (/\ lastOp[1] = "getMinimaxMove"
     /\ NonTerminal
     /\ WinningSlots("O") = {}
     /\ Cardinality(WinningSlots("X")) >= 2)
        => ret \in WinningSlots("X")

\* C32: while gameStarted is false, before the first initializeGame and
\* after every resetGame, handlePlayerMove returns false and places nothing.
C32_NoMoveBeforeStart ==
    [][(lastOp' = "handlePlayerMove" /\ ~gameStarted)
          => (ret' = "false" /\ cells' = cells)]_vars

\* C33: pruning never changes the result: on every board of legal play, in
\* both roles, minimax called with the window -Infinity..Infinity returns
\* the value of the unpruned depth-adjusted game tree, and that value is
\* finite and lies in -10..10.
C33_PruningKeepsValue ==
    lastOp[1] = "minimax" =>
        /\ ret = exactValue(cells, lastOp[2], lastOp[3] = "true")
        /\ ret \in (-10)..10

\* C33 witness: minimax, maximizing at depth 0 on the board with X on 0 and
\* O on 4, returned the value of a drawn game.
C33_Witness ==
    /\ lastOp = <<"minimax", 0, "true">>
    /\ cells = [EmptyBoard EXCEPT ![0] = "X", ![4] = "O"]
    /\ ret = 0

\* The score getMinimaxMove gives the empty slot i of the board: O placed
\* there, X to move, depth 0.
SlotScore(i) == minimax([cells EXCEPT ![i] = "O"], 0, FALSE, -Infinity, Infinity)

\* C34: on a board with at least one empty slot getMinimaxMove returns the
\* smallest index among the empty slots of the greatest score: a later slot
\* replaces the current best only when its score is strictly greater.
C34_FirstOfTheBestSlots ==
    (lastOp[1] = "getMinimaxMove" /\ Empty # {}) =>
        LET greatest == SetMax({SlotScore(i) : i \in Empty})
        IN  ret = SetMin({i \in Empty : SlotScore(i) = greatest})

\* C34 witness: the only marker is an X in the center; the corners 0 and 2
\* score the same, the edge 1 scores less, and the answer is 0.
C34_Witness ==
    /\ lastOp[1] = "getMinimaxMove"
    /\ cells = [EmptyBoard EXCEPT ![4] = "X"]
    /\ SlotScore(0) = SlotScore(2)
    /\ SlotScore(1) < SlotScore(0)
    /\ ret = 0

\* The rows, columns and diagonals of the 3x3 grid as sets of flat indices.
GridLines ==
    {{toIndex(r, c) : c \in 0..2} : r \in 0..2}
        \cup {{toIndex(r, c) : r \in 0..2} : c \in 0..2}
        \cup {{toIndex(d, d) : d \in 0..2}, {toIndex(d, 2 - d) : d \in 0..2}}

\* C35: for every 9-slot board and side, checkWin returns the first triple,
\* in the order rows, columns, diagonals, whose three slots all hold the
\* side, and null exactly when there is none; the 8 triples are the 3 rows,
\* the 3 columns and the 2 diagonals.
C35_CheckWinFirstTriple ==
    lastOp[1] = "checkWin" =>
        LET held == LinesOf(cells, lastOp[2])
        IN  /\ (ret = nullCombo) <=> (held = {})
            /\ held # {} => ret = WIN_COMBINATIONS[SetMin(held)]
            /\ Len(WIN_COMBINATIONS) = 8
            /\ {LineSlots(k) : k \in 1..Len(WIN_COMBINATIONS)} = GridLines
            /\ Cardinality(GridLines) = 8
            /\ \A k \in 1..3 : LineSlots(k) = {toIndex(k - 1, c) : c \in 0..2}
            /\ \A k \in 4..6 : LineSlots(k) = {toIndex(r, k - 4) : r \in 0..2}

\* C35 witness: X holds the row 0-1-2 and the column 0-3-6, and checkWin
\* for X returned the row.
C35_Witness ==
    /\ lastOp = <<"checkWin", "X">>
    /\ LinesOf(cells, "X") = {1, 4}
    /\ ret = <<0, 1, 2>>

\* The empty slots that are the third cell of a triple whose other two
\* cells hold side m.
CompletingSlots(m) ==
    {i \in Empty : \E k \in 1..Len(WIN_COMBINATIONS) :
        i \in LineSlots(k) /\ \A j \in LineSlots(k) \ {i} : cells[j] = m}

\* The triples holding exactly two markers of side m and one empty slot.
OpenLines(m) ==
    {k \in 1..Len(WIN_COMBINATIONS) :
        /\ Cardinality({j \in LineSlots(k) : cells[j] = m}) = 2
        /\ Cardinality(LineSlots(k) \cap Empty) = 1}

\* C36: for every 9-slot board and side, getWinningMove returns a slot
\* exactly when some empty slot would complete a line for the side; the
\* slot is the empty one of the first triple in scan order holding two
\* markers of the side and one empty slot, and the side placed there has a
\* line by checkWin.
C36_GetWinningMoveFirstOpenTriple ==
    lastOp[1] = "getWinningMove" =>
        LET side == lastOp[2]
        IN  /\ (ret # nullMove) <=> (CompletingSlots(side) # {})
            /\ ret # nullMove =>
                  /\ ret \in LineSlots(SetMin(OpenLines(side))) \cap Empty
                  /\ checkWin([cells EXCEPT ![ret] = side], side) # nullCombo

\* C36 witness: X can complete the row 0-1-2 at 2 or the column 0-3-6 at 6,
\* X has no line yet, and getWinningMove for X returned 2.
C36_Witness ==
    /\ lastOp = <<"getWinningMove", "X">>
    /\ ~HasLine("X")
    /\ {2, 6} \subseteq CompletingSlots("X")
    /\ ret = 2

\* C37: in every state between engine operations in which the status is
\* ONGOING and O is to move, a computer-move sequence is pending and the
\* thinking flag is true: the game never waits for a computer move that
\* will not come.
C37_NeverWaitsForNoMove ==
    (status = "ONGOING" /\ currentPlayer = "O") => (pending > 0 /\ aiThinking)

\* C38: between engine operations the published board, side to move and
\* status equal the cells, side to move and status of the internal Board,
\* after initializeGame, an accepted handlePlayerMove, a completed computer
\* move, the checkGameEnd inside them, and resetGame.
C38_StoresMatchBoard ==
    /\ sBoard = cells
    /\ sCurrentPlayer = currentPlayer
    /\ sGameStatus = status

\* C38 witness: an accepted handlePlayerMove completed a line of X, and the
\* published status is PLAYER_WON with the board that holds the line.
C38_Witness ==
    /\ lastOp = "handlePlayerMove"
    /\ ret = "true"
    /\ status = "PLAYER_WON"
    /\ sGameStatus = "PLAYER_WON"
    /\ checkWin(sBoard, "X") # nullCombo

====
